---- MODULE Spec2Model ----
(***************************************************************************)
(* Command-signature registry and resolution/binding engine of             *)
(* CommandConfigurator: Handler.handlers, MyCommandHandler.get_command and *)
(* MyCommandHandler.get_handler_params (commandconfigurator/mgrcmd.py).    *)
(***************************************************************************)
EXTENDS Integers, Sequences, FiniteSets, TLC

(* ---------------- bounds of the model ---------------- *)
\* longest token sequence handed to get_command
MaxLen == 5
\* number of signatures registered on top of the ones mgrcmd.py registers
MaxExtra == 1
\* most parameters a callback handed to the binder alone declares
MaxParams == 3
\* most collected values handed to the binder alone
MaxArgs == 3

\* tokens a command line is made of: keywords as mgrcmd.py spells them,
\* and names (entity names and free text, one of them in two spellings)
Vocab ==
  {"command", "addAlias", "createGroup", "addCategory",
   "addCommand", "removeCommand", "ping", "Ping", "x"}
Names == {"ping", "Ping", "x"}

(* ---------------- str.lower() on the strings of the model ------------- *)
\* the strings of the model that hold an upper-case letter, lower-cased
LowerTable ==
  ("listCommands"   :> "listcommands") @@
  ("addCommand"     :> "addcommand") @@
  ("removeCommand"  :> "removecommand") @@
  ("setHandler"     :> "sethandler") @@
  ("addAlias"       :> "addalias") @@
  ("removeAlias"    :> "removealias") @@
  ("setUsage"       :> "setusage") @@
  ("resetUsage"     :> "resetusage") @@
  ("setCategory"    :> "setcategory") @@
  ("resetCategory"  :> "resetcategory") @@
  ("listGroups"     :> "listgroups") @@
  ("createGroup"    :> "creategroup") @@
  ("deleteGroup"    :> "deletegroup") @@
  ("addUser"        :> "adduser") @@
  ("removeUser"     :> "removeuser") @@
  ("addRole"        :> "addrole") @@
  ("removeRole"     :> "removerole") @@
  ("listCategories" :> "listcategories") @@
  ("addCategory"    :> "addcategory") @@
  ("removeCategory" :> "removecategory") @@
  ("setLabel"       :> "setlabel") @@
  ("PING"           :> "ping") @@
  ("Ping"           :> "ping") @@
  ("COMMAND"        :> "command") @@
  ("Command"        :> "command") @@
  ("Help"           :> "help")

\* s.lower()
Lower(s) == IF s \in DOMAIN LowerTable THEN LowerTable[s] ELSE s

(* ---------------- values collected and bound ---------------- *)
StrVal(s)       == [t |-> "str",  s |-> s,  l |-> <<>>]
ListVal(l)      == [t |-> "list", s |-> "", l |-> l]
NoneVal         == [t |-> "None", s |-> "", l |-> <<>>]
\* (key, object) pairs and objects returned by the argument parsers
EntVal(kind, key, owner) == [t |-> kind, s |-> key, l |-> owner]

(* ---------------- pattern elements (Handler.args) ---------------- *)
Lit(s)     == [k |-> "lit",    v |-> s,  opt |-> FALSE]
Parser(p)  == [k |-> "parser", v |-> p,  opt |-> FALSE]
StrT       == [k |-> "str",    v |-> "", opt |-> FALSE]
ListStr    == [k |-> "list",   v |-> "", opt |-> FALSE]
\* X | None
OrNone(t)  == [t EXCEPT !.opt = TRUE]
\* isinstance(typ, types.UnionType) and type(None) in typing.get_args(typ)
IsOptionalUnion(typ) == typ.opt
\* typing.get_args(typ)[0]
FirstOfUnion(typ) == [typ EXCEPT !.opt = FALSE]

\* variant: the callback's annotation leaves out `| None`
Param_NotOptional(name, typ) == [name |-> name, optional |-> FALSE, hasDefault |-> FALSE]

\* one parameter of a callback, after self and ctx
Param(name, typ) == [name |-> name, optional |-> typ.opt, hasDefault |-> FALSE]

\* a Handler object after __call__: pattern, callback, callback parameters, docs
Sig(line, args, params, docs) ==
  [handler |-> line, args |-> args, params |-> params, docs |-> docs]

CEA == Parser("CommandEntryArgument")
HA  == Parser("HandlerArgument")
GA  == Parser("GroupArgument")
CA  == Parser("CategoryArgument")

PEntry(n)    == Param(n, CEA)
PGroup(n)    == Param(n, GA)
PCategory(n) == Param(n, CA)
PStr(n)      == Param(n, StrT)

\* the signatures mgrcmd.py registers, in registration order
Registered ==
  << Sig(172, <<Lit("listCommands")>>, <<>>, FALSE),
     Sig(204, <<Lit("addCommand"), StrT, OrNone(StrT), OrNone(StrT)>>,
         <<PStr("name"), Param("handler_id", OrNone(StrT)), Param("category", OrNone(StrT))>>, TRUE),
     Sig(233, <<Lit("removeCommand"), CEA>>, <<PEntry("name")>>, TRUE),
     Sig(256, <<Lit("command"), CEA>>, <<PEntry("name")>>, TRUE),
     Sig(272, <<Lit("command"), CEA, Lit("info")>>, <<PEntry("name")>>, TRUE),
     Sig(288, <<Lit("command"), CEA, Lit("setHandler"), HA>>,
         <<PEntry("name"), Param("handler_id", HA)>>, TRUE),
     Sig(300, <<Lit("command"), CEA, Lit("addAlias"), ListStr>>,
         <<PEntry("name"), Param("alias", ListStr)>>, TRUE),
     Sig(328, <<Lit("command"), CEA, Lit("removeAlias"), ListStr>>,
         <<PEntry("name"), Param("alias", ListStr)>>, TRUE),
     Sig(353, <<Lit("command"), CEA, Lit("setUsage"), StrT>>,
         <<PEntry("name"), PStr("usage")>>, TRUE),
     Sig(370, <<Lit("command"), CEA, Lit("resetUsage")>>, <<PEntry("name")>>, TRUE),
     Sig(387, <<Lit("command"), CEA, Lit("setCategory"), CA>>,
         <<PEntry("name"), PCategory("category")>>, TRUE),
     Sig(410, <<Lit("command"), CEA, Lit("resetCategory")>>, <<PEntry("name")>>, TRUE),
     Sig(431, <<Lit("command"), CEA, Lit("test"), StrT>>,
         <<PEntry("name"), PStr("user")>>, TRUE),
     Sig(461, <<Lit("listGroups")>>, <<>>, TRUE),
     Sig(488, <<Lit("createGroup"), StrT, OrNone(ListStr)>>,
         <<PStr("name"), Param("allowed_commands", OrNone(ListStr))>>, TRUE),
     Sig(510, <<Lit("deleteGroup"), GA>>, <<PGroup("name")>>, TRUE),
     Sig(524, <<Lit("group"), GA>>, <<PGroup("name")>>, TRUE),
     Sig(547, <<Lit("group"), GA, Lit("info")>>, <<PGroup("name")>>, TRUE),
     Sig(570, <<Lit("group"), GA, Lit("addCommand"), CEA>>,
         <<PGroup("name"), PEntry("command")>>, TRUE),
     Sig(592, <<Lit("group"), GA, Lit("removeCommand"), CEA>>,
         <<PGroup("name"), PEntry("command")>>, TRUE),
     Sig(614, <<Lit("group"), GA, Lit("addUser"), StrT>>,
         <<PGroup("name"), PStr("user")>>, TRUE),
     Sig(642, <<Lit("group"), GA, Lit("removeUser"), StrT>>,
         <<PGroup("name"), PStr("user")>>, TRUE),
     Sig(670, <<Lit("group"), GA, Lit("addRole"), StrT>>,
         <<PGroup("name"), PStr("role")>>, TRUE),
     Sig(694, <<Lit("group"), GA, Lit("removeRole"), StrT>>,
         <<PGroup("name"), PStr("role")>>, TRUE),
     Sig(718, <<Lit("listCategories")>>, <<>>, TRUE),
     Sig(743, <<Lit("addCategory"), StrT, OrNone(StrT), OrNone(ListStr)>>,
         <<PStr("name"), Param("label", OrNone(StrT)), Param("commands", OrNone(ListStr))>>, TRUE),
     Sig(775, <<Lit("removeCategory"), CA>>, <<PCategory("name")>>, TRUE),
     Sig(797, <<Lit("category"), CA>>, <<PCategory("name")>>, TRUE),
     Sig(811, <<Lit("category"), CA, Lit("info")>>, <<PCategory("name")>>, TRUE),
     Sig(825, <<Lit("category"), CA, Lit("move"), StrT>>,
         <<PCategory("name"), PStr("number")>>, TRUE),
     Sig(851, <<Lit("category"), CA, Lit("setLabel"), StrT>>,
         <<PCategory("name"), PStr("label")>>, TRUE),
     Sig(868, <<Lit("category"), CA, Lit("addCommand"), CEA>>,
         <<PCategory("name"), PEntry("command")>>, TRUE),
     Sig(891, <<Lit("category"), CA, Lit("removeCommand"), StrT>>,
         <<PCategory("name"), PStr("command")>>, TRUE) >>


\* Handler objects a later Handler(...)(func) may register
Extra ==
  << Sig(1001, <<Lit("removeCommand"), Lit("ping")>>, <<>>, TRUE),
     Sig(1002, <<Lit("removeCommand"), GA>>, <<PGroup("name")>>, FALSE) >>

\* every Handler object of the model; Handler.handlers and the locals of
\* get_command hold references (indices) to them
Objects == Registered \o Extra
Builtin == 1..Len(Registered)
Later   == (Len(Registered) + 1)..Len(Objects)

(* ---------------- entity configuration read by the parsers ------------- *)
\* DNCoreAPI.commands(): config.categories (in dict order, each with the
\* keys of its commands), config.groups, and the handlers dict
Configs ==
  { [categories |-> << [name |-> "utility", commands |-> {"ping"}] >>,
     groups     |-> {},
     handlers   |-> {"ping"}],
    [categories |-> << [name |-> "utility", commands |-> {}],
                       [name |-> "x",       commands |-> {"x"}] >>,
     groups     |-> {"x"},
     handlers   |-> {}] }

\* CommandMessageError(message): the text is fixed by the parser and name.lower()
Message(p, name) == [parser |-> p, name |-> Lower(name)]
NoMessage == [parser |-> "", name |-> ""]

Ok(v)     == [ok |-> TRUE,  val |-> v,       msg |-> NoMessage]
Fail(m)   == [ok |-> FALSE, val |-> NoneVal, msg |-> m]

RECURSIVE FindCategory(_, _, _)
\* for category in categories.values(): if name.lower() in category.commands
FindCategory(cats, i, key) ==
  IF i > Len(cats) THEN 0
  ELSE IF key \in cats[i].commands THEN i
  ELSE FindCategory(cats, i + 1, key)

\* variant: the name is looked up as it was typed
CommandEntryArgument_parse_AsTyped(cfg, name) ==
  LET i == FindCategory(cfg.categories, 1, name) IN
  IF i # 0 THEN Ok(EntVal("CommandEntry", name, <<cfg.categories[i].name>>))
  ELSE Fail(Message("CommandEntryArgument", name))

CommandEntryArgument_parse(cfg, name) ==
  LET i == FindCategory(cfg.categories, 1, Lower(name)) IN
  IF i # 0 THEN Ok(EntVal("CommandEntry", Lower(name), <<cfg.categories[i].name>>))
  ELSE Fail(Message("CommandEntryArgument", name))

HandlerArgument_parse(cfg, name) ==
  IF Lower(name) \in cfg.handlers
  THEN Ok(EntVal("CommandHandler", Lower(name), <<>>))
  ELSE Fail(Message("HandlerArgument", name))

GroupArgument_parse(cfg, name) ==
  IF Lower(name) \in cfg.groups
  THEN Ok(EntVal("PermissionGroup", Lower(name), <<>>))
  ELSE Fail(Message("GroupArgument", name))

CategoryArgument_parse(cfg, argument) ==
  IF \E i \in 1..Len(cfg.categories) : cfg.categories[i].name = Lower(argument)
  THEN Ok(EntVal("CommandCategory", Lower(argument), <<>>))
  ELSE Fail(Message("CategoryArgument", argument))

\* typ.parse(arg), dispatched on the parser instance
Parse(p, cfg, arg) ==
  CASE p = "CommandEntryArgument" -> CommandEntryArgument_parse(cfg, arg)
    [] p = "HandlerArgument"      -> HandlerArgument_parse(cfg, arg)
    [] p = "GroupArgument"        -> GroupArgument_parse(cfg, arg)
    [] p = "CategoryArgument"     -> CategoryArgument_parse(cfg, arg)

(* ---------------- Handler ---------------- *)
\* variant: any pattern with elements ignores the input's length
ignore_args_size_AnyArgs(cmd) == Len(cmd.args) > 0

\* Handler.ignore_args_size: the last element is list or list[str] itself
ignore_args_size(cmd) ==
  IF Len(cmd.args) > 0
  THEN LET typ == cmd.args[Len(cmd.args)] IN typ.k = "list" /\ ~typ.opt
  ELSE FALSE

(* ---------------- get_command: the token loop ---------------- *)
\* variant: cmd is removed from a copy and handlers keeps it
Remove_FromCopy(hs, c) == hs

\* handlers.remove(cmd)
Remove(hs, c) == SelectSeq(hs, LAMBDA h : h # c)

\* variant: arguments[idx] alone
Suffix_OneToken(arguments, i) == << arguments[i] >>

\* arguments[idx:]
Suffix(arguments, i) == SubSeq(arguments, i, Len(arguments))

\* variant: the failure is caught and only the candidate is dropped
OnParseError_DropsCandidate(st, c, m) == [st EXCEPT !.handlers = Remove(@, c)]

\* a failed typ.parse(arg) raises CommandMessageError out of get_command
OnParseError(st, c, m) == [st EXCEPT !.raised = TRUE, !.message = m]

\* typ = typing.get_args(typ)[0] when typ is `X | None`
StripOptional(typ) == IF IsOptionalUnion(typ) THEN FirstOfUnion(typ) ELSE typ

\* `typ.parse(arg)` was called for candidate c at index i and ended as r
AfterParse(st, i, c, p, r) ==
  IF r.ok
  THEN [st EXCEPT !.parses = Append(@, [parser |-> p, idx |-> i, cmd |-> c, ok |-> TRUE]),
                  !.args[c] = Append(@, r.val)]
  ELSE OnParseError([st EXCEPT !.parses =
                       Append(@, [parser |-> p, idx |-> i, cmd |-> c, ok |-> FALSE])],
                    c, r.msg)

\* the isinstance chain on the pattern element typ of candidate c at index i
MatchElement(st, cfg, arguments, i, c, typ) ==
  CASE typ.k = "lit" /\ Lower(typ.v) # Lower(arguments[i]) ->
         [st EXCEPT !.handlers = Remove(@, c)]
    [] typ.k = "lit" /\ Lower(typ.v) = Lower(arguments[i]) -> st
    [] typ.k = "parser" ->
         AfterParse(st, i, c, typ.v, Parse(typ.v, cfg, arguments[i]))
    [] typ.k = "str" ->
         [st EXCEPT !.args[c] = Append(@, StrVal(arguments[i]))]
    [] typ.k = "list" ->
         [st EXCEPT !.args[c] = Append(@, ListVal(Suffix(arguments, i)))]

\* variant: `except IndexError: continue`, the candidate is kept
ExamineCandidate_KeepsOverlong(st, cfg, arguments, i, c, cmd) ==
  IF i > Len(cmd.args)
  THEN st
  ELSE MatchElement(st, cfg, arguments, i, c, StripOptional(cmd.args[i]))

\* try: typ = cmd.args[idx]; except IndexError: drop cmd unless it ignores
\* the input's length
ExamineCandidate(st, cfg, arguments, i, c, cmd) ==
  IF i > Len(cmd.args)
  THEN IF ~ignore_args_size(cmd)
       THEN [st EXCEPT !.handlers = Remove(@, c)]
       ELSE st
  ELSE MatchElement(st, cfg, arguments, i, c, StripOptional(cmd.args[i]))

\* body of `for cmd in list(handlers)` for candidate c at token index i
\* (i counts from 1); st holds the locals handlers and _args of the call
LoopBody(st, cfg, arguments, i, c) ==
  IF st.raised THEN st
  ELSE ExamineCandidate(st, cfg, arguments, i, c, Objects[c])

RECURSIVE LoopCmds(_, _, _, _, _, _)
\* for cmd in list(handlers): snapshot is the copy taken when index i starts
LoopCmds(st, cfg, arguments, i, snapshot, j) ==
  IF j > Len(snapshot) THEN st
  ELSE LoopCmds(LoopBody(st, cfg, arguments, i, snapshot[j]),
                cfg, arguments, i, snapshot, j + 1)

RECURSIVE Loop(_, _, _, _)
\* for idx, arg in enumerate(arguments)
Loop(st, cfg, arguments, i) ==
  IF i > Len(arguments) THEN st
  ELSE Loop(LoopCmds([st EXCEPT !.examined = @ + Len(st.handlers)],
                     cfg, arguments, i, st.handlers, 1),
            cfg, arguments, i + 1)


(* ---------------- get_command: trailing arity check and decision ------- *)
\* variant: every position past the input counts as required
RequiredMissing_NoOptional(cmd, n) == n < Len(cmd.args)

\* for typ in cmd.args[len(arguments):]: a position that is not `X | None`
RequiredMissing(cmd, n) ==
  \E j \in (n + 1)..Len(cmd.args) : ~IsOptionalUnion(cmd.args[j])

\* variant: the removals are not recorded
ArityErrors_Unrecorded(hs, n) == << >>

\* second loop of get_command: arg_errors, in order
ArityErrors(hs, n) == SelectSeq(hs, LAMBDA c : RequiredMissing(Objects[c], n))
\* second loop of get_command: the candidates it leaves in handlers
ArityKept(hs, n)   == SelectSeq(hs, LAMBDA c : ~RequiredMissing(Objects[c], n))

\* variant: `if arg_errors:`
RaisesInfoError_Any(arg_errors) == Len(arg_errors) >= 1

\* `if len(arg_errors) == 1: raise CommandInfoError(arg_errors[0])`
RaisesInfoError(arg_errors) == Len(arg_errors) = 1

\* variant: cmd = handlers[-1]
Winner_Last(hs) == hs[Len(hs)]

\* cmd = handlers[0]
Winner(hs) == hs[1]

(* ---------------- get_handler_params ---------------- *)
\* kwargs[name] = value
SetItem(kwargs, name, v) ==
  [x \in DOMAIN kwargs \cup {name} |-> IF x = name THEN v ELSE kwargs[x]]

\* variant: the declared default is looked at before the annotation
OnExhausted_DefaultFirst(parameter) ==
  IF parameter.hasDefault THEN [ok |-> TRUE, val |-> [t |-> "default", s |-> parameter.name, l |-> <<>>]]
  ELSE IF parameter.optional THEN [ok |-> TRUE, val |-> NoneVal]
  ELSE [ok |-> FALSE, val |-> NoneVal]

\* what a parameter gets once args.pop(0) raises IndexError
OnExhausted(parameter) ==
  IF parameter.optional THEN [ok |-> TRUE, val |-> NoneVal]
  ELSE IF parameter.hasDefault THEN [ok |-> TRUE, val |-> [t |-> "default", s |-> parameter.name, l |-> <<>>]]
  ELSE [ok |-> FALSE, val |-> NoneVal]

RECURSIVE BindParameters(_, _, _, _)
\* for idx, parameter in enumerate(parameters)
BindParameters(parameters, j, args, kwargs) ==
  IF j > Len(parameters) THEN [ok |-> TRUE, kwargs |-> kwargs, rest |-> args]
  ELSE
    LET parameter == parameters[j] IN
    IF Len(args) > 0
    THEN BindParameters(parameters, j + 1, Tail(args),
                        SetItem(kwargs, parameter.name, Head(args)))
    ELSE LET e == OnExhausted(parameter) IN
         IF e.ok
         THEN BindParameters(parameters, j + 1, args,
                             SetItem(kwargs, parameter.name, e.val))
         ELSE [ok |-> FALSE, kwargs |-> kwargs, rest |-> args]

SelfVal == [t |-> "MyCommandHandler", s |-> "", l |-> <<>>]
CtxVal  == [t |-> "CommandContext",   s |-> "", l |-> <<>>]

\* variant: args.pop() takes the values from the end
get_handler_params_PopsLast(cmd, args) ==
  BindParameters(cmd.params, 1, [j \in 1..Len(args) |-> args[Len(args) + 1 - j]],
                 [x \in {"self", "ctx"} |-> IF x = "self" THEN SelfVal ELSE CtxVal])

\* kwargs = dict(self=self, ctx=ctx), then one entry per declared parameter
get_handler_params(cmd, args) ==
  BindParameters(cmd.params, 1, args,
                 [x \in {"self", "ctx"} |-> IF x = "self" THEN SelfVal ELSE CtxVal])

(* ---------------- get_command ---------------- *)
NoKwargs == [x \in {} |-> NoneVal]
Outcome(kind, c, kwargs, m) ==
  [kind |-> kind, command |-> c, kwargs |-> kwargs, message |-> m]
NoResult == Outcome("pending", 0, NoKwargs, NoMessage)

\* variant: the check is missing
RejectsEmpty_Never(arguments) == FALSE

\* `if not arguments: raise CommandNotFoundError()`
RejectsEmpty(arguments) == Len(arguments) = 0

\* variant: `handlers = Handler.handlers`, the class attribute itself
ClassHandlers_Aliased(reg, local) == local

\* Handler.handlers once a call has ended with its local handlers as given:
\* list(Handler.handlers) is a list of the call's own, and every
\* handlers.remove(cmd) acts on that list
ClassHandlers(reg, local) == reg

\* locals when the token loop starts: handlers = list(Handler.handlers),
\* _args = {hdl: [] for hdl in handlers}
LoopStart(reg) ==
  [handlers |-> reg,
   args     |-> [c \in {reg[j] : j \in 1..Len(reg)} |-> <<>>],
   raised   |-> FALSE,
   message  |-> NoMessage,
   parses   |-> <<>>,
   examined |-> 0]

\* get_handler_params(cmd, _args[cmd]) ended as b for the selected cmd
Bound(st, kept, errs, cmd, b) ==
  [st |-> st, live |-> kept, arg_errors |-> errs, rest |-> b.rest,
   result |-> IF b.ok
              THEN Outcome("Resolved", cmd, b.kwargs, NoMessage)
              ELSE Outcome("CommandInfoError", cmd, NoKwargs, NoMessage)]

\* `return cmd, self.get_handler_params(cmd, _args[cmd])`
Select(st, kept, errs, cmd) ==
  Bound(st, kept, errs, cmd, get_handler_params(Objects[cmd], st.args[cmd]))

\* `if not handlers:` after the arity loop left kept and recorded errs
Decide(st, kept, errs) ==
  IF Len(kept) = 0
  THEN [st |-> st, live |-> kept, arg_errors |-> errs, rest |-> <<>>,
        result |-> IF RaisesInfoError(errs)
                   THEN Outcome("CommandInfoError", errs[1], NoKwargs, NoMessage)
                   ELSE Outcome("CommandNotFoundError", 0, NoKwargs, NoMessage)]
  ELSE Select(st, kept, errs, Winner(kept))

\* the arity loop over the candidates hs that the token loop left
ArityLoop(st, hs, n) ==
  Decide([st EXCEPT !.examined = @ + Len(hs)], ArityKept(hs, n), ArityErrors(hs, n))

\* get_command from the end of the token loop on
AfterLoop(st, n) ==
  IF st.raised
  THEN [st |-> st, live |-> st.handlers, arg_errors |-> <<>>, rest |-> <<>>,
        result |-> Outcome("CommandMessageError", 0, NoKwargs, st.message)]
  ELSE IF Len(st.handlers) = 0
  THEN [st |-> st, live |-> <<>>, arg_errors |-> <<>>, rest |-> <<>>,
        result |-> Outcome("CommandNotFoundError", 0, NoKwargs, NoMessage)]
  ELSE ArityLoop(st, st.handlers, n)

\* the whole of get_command: the locals it ends with and what it returns or raises
get_command(reg, cfg, arguments) ==
  IF RejectsEmpty(arguments)
  THEN [st |-> [LoopStart(reg) EXCEPT !.handlers = <<>>], live |-> <<>>,
        arg_errors |-> <<>>, rest |-> <<>>,
        result |-> Outcome("CommandNotFoundError", 0, NoKwargs, NoMessage)]
  ELSE AfterLoop(Loop(LoopStart(reg), cfg, arguments, 1), Len(arguments))

(* ---------------- cmd_cconf (plugin.py) ---------------- *)
\* ctx.arguments.get(default="")
FirstArgument(arguments) == IF Len(arguments) = 0 THEN "" ELSE arguments[1]

\* `if ctx.arguments.get(default="") == "help":`
AsksHelp(arguments) == FirstArgument(arguments) = "help"

\* what cmd_cconf sends to the channel
Sent(kind, m, c) == [kind |-> kind, message |-> m, command |-> c]

\* variant: every call that names a signature goes on to the invocation
InvokedAfter_Named(res) ==
  IF res.command # 0
  THEN << [handler |-> Objects[res.command].handler, kwargs |-> res.kwargs] >>
  ELSE << >>

\* `await command(**kwargs)`, reached only when get_command returned
InvokedAfter(res) ==
  IF res.kind = "Resolved"
  THEN << [handler |-> Objects[res.command].handler, kwargs |-> res.kwargs] >>
  ELSE << >>

\* the except branches of cmd_cconf: what is sent
SentAfter(res) ==
  CASE res.kind = "CommandMessageError" -> << Sent("warn", res.message, 0) >>
    [] res.kind = "CommandInfoError" /\ Objects[res.command].docs ->
         << Sent("usage", NoMessage, res.command) >>
    [] OTHER -> << >>

\* the except branches of cmd_cconf: `raise CommandUsageError() from e`
RaisesUsageError(res) ==
  \/ res.kind = "CommandInfoError" /\ ~Objects[res.command].docs
  \/ res.kind = "CommandNotFoundError"

(* ---------------- state ---------------- *)
VARIABLES
  registry,     \* Handler.handlers, as references into Objects
  config,       \* the entity configuration behind DNCoreAPI.commands()
  pc,           \* "idle", "called" (a ctx is waiting), "done" (get_command ended)
  arguments,    \* ctx.arguments
  handlers,     \* local handlers of get_command when it ends
  collected,    \* local _args of get_command when it ends
  arg_errors,   \* local arg_errors of get_command when it ends
  result,       \* what get_command returned or raised
  loopLive,     \* handlers as it was when the token loop ended
  parses,       \* the typ.parse(arg) calls made, in order
  examined,     \* sizes of the candidate lists the two loops were started over
  unbound,      \* the values left in args when get_handler_params ended
  invoked,      \* the callbacks cmd_cconf awaited, each with its kwargs
  sent,         \* what cmd_cconf sent: info, warn and usage messages
  usage_error,  \* cmd_cconf raised CommandUsageError
  bpc,          \* the binder taken alone: "off", "start", "bound"
  bsig,         \* the Handler object whose callback is bound
  bargs,        \* the collected values handed to get_handler_params
  bresult,      \* what the end of get_command makes of the binding
  brest,        \* the values left in args when the binder ends
  calls         \* get_command calls run side by side: the locals of each

bindVars == <<bpc, bsig, bargs, bresult, brest>>

outVars == <<unbound, invoked, sent, usage_error>>

vars == <<registry, config, pc, arguments, handlers, collected, arg_errors,
          result, loopLive, parses, examined, outVars, bindVars, calls>>

\* tokens tried at position i: the names, and the tokens of Vocab that some
\* pattern of the model holds as a literal at that position (elsewhere a
\* keyword is one more string that names no entity)
TokensAt(i) ==
  Names \cup
  { t \in Vocab :
      \E c \in DOMAIN Objects :
        /\ i <= Len(Objects[c].args)
        /\ Objects[c].args[i].k = "lit"
        /\ Lower(Objects[c].args[i].v) = Lower(t) }

RECURSIVE TokenSeqs(_)
TokenSeqs(n) ==
  IF n = 0 THEN { <<>> }
  ELSE { Append(s, t) : s \in TokenSeqs(n - 1), t \in TokensAt(n) }

\* the token sequences of at most MaxLen tokens, and the ones cmd_cconf
\* looks at before it resolves anything
Inputs ==
  UNION { TokenSeqs(n) : n \in 0..MaxLen }
    \cup { <<"help">>, <<"help", "x">>, <<"Help">> }

NoCall ==
  /\ arguments = <<>>
  /\ handlers = <<>>
  /\ collected = <<>>
  /\ arg_errors = <<>>
  /\ result = NoResult
  /\ loopLive = <<>>
  /\ parses = <<>>
  /\ examined = 0
  /\ unbound = <<>>
  /\ invoked = <<>>
  /\ sent = <<>>
  /\ usage_error = FALSE

\* the binder is not run on its own
NoBind ==
  /\ bpc = "off"
  /\ bsig = Sig(0, <<>>, <<>>, FALSE)
  /\ bargs = <<>>
  /\ bresult = NoResult
  /\ brest = <<>>

\* no call runs beside another
NoCalls == calls = << >>

Init ==
  /\ registry = [c \in Builtin |-> c]
  /\ config \in Configs
  /\ pc = "idle"
  /\ NoCall
  /\ NoBind
  /\ NoCalls

\* Handler.__call__: self.handlers.append(self)
Register(h) ==
  /\ pc = "idle"
  /\ Len(registry) < Len(Registered) + MaxExtra
  /\ \A j \in 1..Len(registry) : registry[j] # h
  /\ registry' = Append(registry, h)
  /\ UNCHANGED <<config, pc, arguments, handlers, collected, arg_errors,
                 result, loopLive, parses, examined>>
  /\ UNCHANGED <<outVars, bindVars, calls>>

\* a command context with its arguments reaches the plugin
Call ==
  /\ pc = "idle"
  /\ pc' = "called"
  /\ \E tokens \in Inputs : arguments' = tokens
  /\ UNCHANGED <<registry, config, handlers, collected, arg_errors,
                 result, loopLive, parses, examined>>
  /\ UNCHANGED <<outVars, bindVars, calls>>

\* self.commands.get_command(ctx)
GetCommand ==
  /\ pc = "called"
  /\ ~AsksHelp(arguments)
  /\ \E r \in {get_command(registry, config, arguments)} :
       /\ handlers' = r.live
       /\ collected' = r.st.args
       /\ arg_errors' = r.arg_errors
       /\ result' = r.result
       /\ loopLive' = r.st.handlers
       /\ parses' = r.st.parses
       /\ examined' = r.st.examined
       /\ unbound' = r.rest
       /\ registry' = ClassHandlers(registry, r.live)
  /\ pc' = "done"
  /\ UNCHANGED <<config, arguments, invoked, sent, usage_error>>
  /\ UNCHANGED <<bindVars, calls>>

\* cmd_cconf after get_command: the except branches, or the invocation
Dispatch ==
  /\ pc = "done"
  /\ pc' = "handled"
  /\ invoked' = InvokedAfter(result)
  /\ sent' = SentAfter(result)
  /\ usage_error' = RaisesUsageError(result)
  /\ UNCHANGED <<registry, config, arguments, handlers, collected, arg_errors,
                 result, loopLive, parses, examined, unbound>>
  /\ UNCHANGED <<bindVars, calls>>

\* cmd_cconf on "help": the list of operations is sent and nothing is resolved
Help ==
  /\ pc = "called"
  /\ AsksHelp(arguments)
  /\ pc' = "handled"
  /\ sent' = << Sent("info", NoMessage, 0) >>
  /\ UNCHANGED <<registry, config, arguments, handlers, collected, arg_errors,
                 result, loopLive, parses, examined, unbound, invoked, usage_error>>
  /\ UNCHANGED <<bindVars, calls>>

\* the call is over: its resolution state is discarded
Return ==
  /\ pc = "handled"
  /\ pc' = "idle"
  /\ arguments' = <<>>
  /\ handlers' = <<>>
  /\ collected' = <<>>
  /\ arg_errors' = <<>>
  /\ result' = NoResult
  /\ loopLive' = <<>>
  /\ parses' = <<>>
  /\ examined' = 0
  /\ unbound' = <<>>
  /\ invoked' = <<>>
  /\ sent' = <<>>
  /\ usage_error' = FALSE
  /\ UNCHANGED <<registry, config>>
  /\ UNCHANGED <<bindVars, calls>>

Next ==
  \/ \E h \in Later : Register(h)
  \/ Call
  \/ Help
  \/ GetCommand
  \/ Dispatch
  \/ Return

Spec == Init /\ [][Next]_vars

(* ---------------- the binder taken alone ---------------- *)
\* declared parameters of a callback after self and ctx: every annotation
\* and default combination, named by position
ParamNames == <<"p1", "p2", "p3", "p4", "p5">>
RECURSIVE ParamLists(_)
ParamLists(n) ==
  IF n = 0 THEN { <<>> }
  ELSE { Append(ps, [name |-> ParamNames[n], optional |-> o, hasDefault |-> d]) :
           ps \in ParamLists(n - 1), o \in BOOLEAN, d \in BOOLEAN }

\* collected values: strings, in lists of n
RECURSIVE ValueLists(_)
ValueLists(n) ==
  IF n = 0 THEN { <<>> }
  ELSE { Append(vs, StrVal(t)) : vs \in ValueLists(n - 1), t \in {"ping", "x"} }

\* a Handler object with a callback of the given parameters
BindInit ==
  /\ registry = [c \in Builtin |-> c]
  /\ config \in Configs
  /\ pc = "idle"
  /\ NoCall
  /\ bpc = "start"
  /\ bsig \in { Sig(1, <<>>, ps, TRUE) : ps \in UNION { ParamLists(n) : n \in 0..MaxParams } }
  /\ bargs \in UNION { ValueLists(n) : n \in 0..MaxArgs }
  /\ bresult = NoResult
  /\ brest = <<>>
  /\ NoCalls

\* the end of get_command for the selected cmd: get_handler_params under
\* `try: ... except IndexError: raise CommandInfoError(cmd)`
Bind ==
  /\ bpc = "start"
  /\ bpc' = "bound"
  /\ \E b \in {get_handler_params(bsig, bargs)} :
       /\ bresult' = Bound(LoopStart(<<>>), <<>>, <<>>, bsig.handler, b).result
       /\ brest' = b.rest
  /\ UNCHANGED <<registry, config, pc, arguments, handlers, collected,
                 arg_errors, result, loopLive, parses, examined, outVars,
                 bsig, bargs, calls>>

BindNext == Bind

SpecBind == BindInit /\ [][BindNext]_vars

(* ---------------- get_command calls side by side ---------------- *)
\* the callers, and the token sequences they bring
Callers == {1, 2}
ConcInputs ==
  { << >>,
    <<"x">>,
    <<"removeCommand", "ping">>,
    <<"command", "x">>,
    <<"command", "Ping", "addAlias", "x">>,
    <<"createGroup", "x", "ping">> }

\* Handler.handlers while the calls run
ConcRegistry == [c \in Builtin |-> c]

\* what a call hands back: the return value or the exception, with the
\* locals it ended with
NoOut ==
  [result |-> NoResult, live |-> << >>, arg_errors |-> << >>,
   args |-> << >>, rest |-> << >>]
OutOf(r) ==
  [result |-> r.result, live |-> r.live, arg_errors |-> r.arg_errors,
   args |-> r.st.args, rest |-> r.rest]

\* a call before its first statement
Fresh(tokens) ==
  [phase |-> "entry", tokens |-> tokens, st |-> LoopStart(<< >>),
   idx |-> 0, snapshot |-> << >>, at |-> 0, out |-> NoOut]

ConcInit ==
  /\ registry = ConcRegistry
  /\ config \in Configs
  /\ pc = "idle"
  /\ NoCall
  /\ NoBind
  /\ calls \in { [p \in Callers |-> Fresh(ab[p])] :
                    ab \in { xy \in ConcInputs \X ConcInputs : xy[1] # xy[2] } }

\* cmd_cconf is at no other statement while the calls run
ConcFrame ==
  UNCHANGED <<config, pc, arguments, handlers, collected, arg_errors,
              result, loopLive, parses, examined, outVars, bindVars>>

\* lines 83-87: the empty check, then handlers = list(Handler.handlers)
\* and _args
Enter(p) ==
  /\ calls[p].phase = "entry"
  /\ calls' = [calls EXCEPT ![p] =
       IF RejectsEmpty(@.tokens)
       THEN [@ EXCEPT !.phase = "end",
                      !.out = OutOf(get_command(registry, config, << >>))]
       ELSE [@ EXCEPT !.phase = "loop", !.st = LoopStart(registry)]]
  /\ UNCHANGED registry
  /\ ConcFrame

\* line 89: the next token, or the end of the token loop
NextToken(p) ==
  /\ calls[p].phase = "loop"
  /\ calls[p].at = Len(calls[p].snapshot)
  /\ calls' = [calls EXCEPT ![p] =
       IF @.idx >= Len(@.tokens)
       THEN [@ EXCEPT !.phase = "after"]
       ELSE [@ EXCEPT !.idx = @ + 1, !.snapshot = calls[p].st.handlers, !.at = 0,
                      !.st.examined = @ + Len(calls[p].st.handlers)]]
  /\ UNCHANGED registry
  /\ ConcFrame

\* lines 90-111: the loop body for the next candidate of the snapshot
Examine(p) ==
  /\ calls[p].phase = "loop"
  /\ calls[p].at < Len(calls[p].snapshot)
  /\ \E st \in { LoopBody(calls[p].st, config, calls[p].tokens, calls[p].idx,
                            calls[p].snapshot[calls[p].at + 1]) } :
       /\ calls' = [calls EXCEPT ![p] =
            [@ EXCEPT !.st = st, !.at = @ + 1,
                      !.phase = IF st.raised THEN "after" ELSE "loop"]]
       /\ registry' = ClassHandlers(registry, st.handlers)
  /\ ConcFrame

\* lines 113-136: from the end of the token loop to the return or raise
Leave(p) ==
  /\ calls[p].phase = "after"
  /\ \E r \in { AfterLoop(calls[p].st, Len(calls[p].tokens)) } :
       /\ calls' = [calls EXCEPT ![p] = [@ EXCEPT !.phase = "end", !.out = OutOf(r)]]
       /\ registry' = ClassHandlers(registry, r.live)
  /\ ConcFrame

ConcNext ==
  \/ \E p \in Callers : Enter(p)
  \/ \E p \in Callers : NextToken(p)
  \/ \E p \in Callers : Examine(p)
  \/ \E p \in Callers : Leave(p)

SpecConc == ConcInit /\ [][ConcNext]_vars

TypeOK ==
  /\ pc \in {"idle", "called", "done", "handled"}
  /\ Len(arguments) <= MaxLen
  /\ result.kind \in {"pending", "Resolved", "CommandMessageError",
                      "CommandInfoError", "CommandNotFoundError"}


(* ======================================================================= *)
(* Properties                                                              *)
(* ======================================================================= *)
Done == pc = "done"
Elements(seq) == { seq[j] : j \in 1..Len(seq) }
Pattern(c) == Objects[c].args
Resolved(c) == result.kind = "Resolved" /\ result.command = c

\* the token at position i is one the i-th pattern element of c accepts
TokenFits(c, i) ==
  LET typ == Pattern(c)[i] IN
  CASE typ.k = "lit"    -> Lower(typ.v) = Lower(arguments[i])
    [] typ.k = "parser" -> Parse(typ.v, config, arguments[i]).ok
    [] OTHER            -> TRUE

\* the tokens fit every pattern position of c up to and including position m
FitsThrough(c, m) == \A i \in 1..m : TokenFits(c, i)

\* the last pattern element of c is a list element, plain or `| None`
EndsInList(c) ==
  Len(Pattern(c)) > 0 /\ Pattern(c)[Len(Pattern(c))].k = "list"

\* the tokens of the input from position i on
TokensFrom(i) == [j \in 1..(Len(arguments) - i + 1) |-> arguments[i + j - 1]]

\* the value the i-th pattern position of c stands for
ValueAt(c, i) ==
  LET typ == Pattern(c)[i] IN
  CASE typ.k = "parser" -> Parse(typ.v, config, arguments[i]).val
    [] typ.k = "list"   -> ListVal(TokensFrom(i))
    [] OTHER            -> StrVal(arguments[i])

\* the positions of c that carry a value, in order
ValuePositions(c) ==
  SelectSeq([i \in 1..Len(Pattern(c)) |-> i], LAMBDA i : Pattern(c)[i].k # "lit")

\* every declared parameter of c holds the value of its own position, and
\* null when the input ends before that position
BoundByPosition(c) ==
  LET ps  == Objects[c].params
      pos == ValuePositions(c)
  IN /\ Len(ps) = Len(pos)
     /\ \A j \in 1..Len(ps) :
          /\ ps[j].name \in DOMAIN result.kwargs
          /\ result.kwargs[ps[j].name] =
               IF pos[j] <= Len(arguments) THEN ValueAt(c, pos[j]) ELSE NoneVal

\* the tokens match the whole pattern of c position by position: one token
\* per position, and one or more tokens at a trailing list position
FullMatch(c) ==
  LET n == Len(Pattern(c)) IN
  IF EndsInList(c)
  THEN Len(arguments) >= n /\ FitsThrough(c, n - 1)
  ELSE Len(arguments) = n /\ FitsThrough(c, n)

\* C1: round trip. For every signature mgrcmd.py registers and every token
\* sequence that matches its pattern position by position, get_command
\* returns that signature's callback with every declared parameter bound to
\* the value of its own position.
C1_RoundTrip ==
  Done => \A c \in Elements(registry) \cap Builtin :
            FullMatch(c) => (Resolved(c) /\ BoundByPosition(c))

\* position of a registered Handler object in Handler.handlers
RegIndex(c) == CHOOSE j \in 1..Len(registry) : registry[j] = c
Raised == result.kind = "CommandMessageError"

\* C2: first-committed parse. When the typed parser of a candidate that is
\* still live at token position i fails on tokens[i], get_command ends with
\* CommandMessageError carrying the message of the parser that failed, and
\* no candidate is selected, whatever the other live candidates accept.
C2_FirstCommittedParse ==
  Done =>
    /\ \A k \in 1..Len(parses) :
         ~parses[k].ok =>
           /\ result.kind = "CommandMessageError"
           /\ result.message = Message(parses[k].parser, arguments[parses[k].idx])
           /\ result.command = 0
    /\ \A c \in Elements(registry) :
         \A i \in 1..Len(arguments) :
           ( /\ i <= Len(Pattern(c))
             /\ Pattern(c)[i].k = "parser"
             /\ FitsThrough(c, i - 1)
             /\ ~TokenFits(c, i) )
           => (result.kind = "CommandMessageError" /\ result.command = 0)

\* a parse failed at a position where another registered candidate, live up
\* to that position, accepts the same token through a literal
C2_Witness ==
  /\ Done
  /\ result.kind = "CommandMessageError"
  /\ \E k \in 1..Len(parses) :
       /\ ~parses[k].ok
       /\ \E c \in Elements(registry) :
            /\ c # parses[k].cmd
            /\ parses[k].idx <= Len(Pattern(c))
            /\ Pattern(c)[parses[k].idx].k = "lit"
            /\ FitsThrough(c, parses[k].idx)

\* name of the parameter that takes the trailing list element of c
ListParam(c) == Objects[c].params[Len(Objects[c].params)].name

C4_RestCandidateStaysLive ==
  (Done /\ ~Raised) =>
    \A c \in Elements(registry) :
      ( /\ EndsInList(c)
        /\ Len(arguments) >= Len(Pattern(c))
        /\ FitsThrough(c, Len(Pattern(c)) - 1) )
      => c \in Elements(loopLive)

\* C5: when no candidate is live after the trailing-arity check, the call
\* fails with CommandInfoError naming the eliminated signature if exactly one
\* candidate was removed by that check, and with CommandNotFoundError for zero
\* or two or more such removals.
C5_FailureKind ==
  (Done /\ ~Raised /\ Len(handlers) = 0) =>
    LET missing == { c \in Elements(loopLive) :
                       \E j \in (Len(arguments) + 1)..Len(Pattern(c)) : ~Pattern(c)[j].opt }
    IN IF Cardinality(missing) = 1
       THEN result.kind = "CommandInfoError" /\ result.command \in missing
       ELSE result.kind = "CommandNotFoundError"

\* exactly one candidate survived the token loop and fell to the arity check
C5_Witness ==
  /\ Done
  /\ Len(loopLive) = 1
  /\ Len(arg_errors) = 1
  /\ result.kind = "CommandInfoError"
  /\ result.command = arg_errors[1]

\* C6: tie-break. When candidates are live after the trailing-arity check,
\* the one selected is the live candidate registered first; a later one is
\* never selected while an earlier one is live.
C6_FirstRegisteredWins ==
  (Done /\ ~Raised /\ Len(handlers) > 0) =>
    /\ result.kind \in {"Resolved", "CommandInfoError"}
    /\ result.command \in Elements(handlers)
    /\ \A c \in Elements(handlers) : RegIndex(result.command) <= RegIndex(c)

\* two signatures were live after the arity check and one was selected
C6_Witness ==
  /\ Done
  /\ Len(handlers) >= 2
  /\ result.kind = "Resolved"

\* C7: an input that stops before trailing positions that are all `X | None`
\* and fits the positions it covers resolves to that signature, each omitted
\* parameter being null.
C7_OptionalTailOmitted ==
  Done =>
    \A c \in Elements(registry) :
      ( /\ Len(arguments) < Len(Pattern(c))
        /\ \A j \in (Len(arguments) + 1)..Len(Pattern(c)) : Pattern(c)[j].opt
        /\ FitsThrough(c, Len(arguments)) )
      => (Resolved(c) /\ BoundByPosition(c))

\* ["addCommand", <name>] resolved with handler_id and category null
C7_Witness ==
  /\ Done
  /\ Len(arguments) = 2
  /\ result.kind = "Resolved"
  /\ Objects[result.command].handler = 204
  /\ result.kwargs["name"] = StrVal(arguments[2])
  /\ result.kwargs["handler_id"] = NoneVal
  /\ result.kwargs["category"] = NoneVal

\* C8: a signature that does not end in a list element is never returned for
\* an input with more tokens than its pattern has positions, and it is no
\* longer a candidate when the token loop ends.
C8_ExtraTokenEliminates ==
  Done =>
    \A c \in Elements(registry) :
      ( /\ ~EndsInList(c)
        /\ Len(arguments) > Len(Pattern(c))
        /\ FitsThrough(c, Len(Pattern(c))) )
      => (~Resolved(c) /\ (~Raised => c \notin Elements(loopLive)))

\* one token too many after a full match of a signature without a list tail
C8_Witness ==
  /\ Done
  /\ ~Raised
  /\ \E c \in Elements(registry) :
       /\ ~EndsInList(c)
       /\ Len(arguments) = Len(Pattern(c)) + 1
       /\ FitsThrough(c, Len(Pattern(c)))
       /\ Len(Pattern(c)) >= 2

\* registered signatures whose leading literal is the first token
LedBy == { c \in Elements(registry) : Len(Pattern(c)) >= 1 /\ TokenFits(c, 1) }
\* c has a position past the first that is not `X | None`
NeedsMore(c) == \E j \in 2..Len(Pattern(c)) : ~Pattern(c)[j].opt

\* C9 as stated: an input that is only the leading keyword of a signature
\* requiring a typed argument fails with CommandInfoError naming an operation
\* led by that keyword.
C9_KeywordAloneIncomplete ==
  (Done /\ Len(arguments) = 1) =>
    \A c \in LedBy :
      (Len(Pattern(c)) >= 2 /\ Pattern(c)[2].k = "parser") =>
        (result.kind = "CommandInfoError" /\ result.command \in LedBy)

\* C9 amended: a single token that leads registered signatures which all
\* need further tokens fails with CommandInfoError naming the signature when
\* it leads exactly one, and with CommandNotFoundError when it leads two or
\* more (as `command` does).
C9_KeywordAloneByCount ==
  (Done /\ Len(arguments) = 1 /\ LedBy # {} /\ \A c \in LedBy : NeedsMore(c)) =>
    IF Cardinality(LedBy) = 1
    THEN result.kind = "CommandInfoError" /\ result.command \in LedBy
    ELSE result.kind = "CommandNotFoundError"

\* ["removeCommand"] alone named the one signature it leads
C9_Witness ==
  /\ Done
  /\ Len(arguments) = 1
  /\ Cardinality(LedBy) = 1
  /\ result.kind = "CommandInfoError"
  /\ Objects[result.command].handler = 233

\* C10: an empty token sequence raises CommandNotFoundError with no
\* candidate examined and no parser invoked, whatever is registered and
\* configured.
C10_EmptyInputNotFound ==
  (Done /\ Len(arguments) = 0) =>
    /\ result.kind = "CommandNotFoundError"
    /\ examined = 0
    /\ parses = <<>>
    /\ Len(loopLive) = 0

\* an empty input was resolved against a registry that grew after start-up
C10_Witness ==
  /\ Done
  /\ Len(arguments) = 0
  /\ Len(registry) > Len(Registered)
  /\ result.kind = "CommandNotFoundError"

(* ---------------- C11 ---------------- *)
\* parameters of bsig past the values handed in that have neither an
\* optional annotation nor a default
Unbindable ==
  { j \in (Len(bargs) + 1)..Len(bsig.params) :
      ~bsig.params[j].optional /\ ~bsig.params[j].hasDefault }

\* C11: binding rule. The declared parameters are walked in order and each
\* gets the next unconsumed value; once the values are exhausted an optional
\* parameter is bound to null (also when it declares a default), otherwise a
\* parameter with a default is bound to that default, otherwise binding
\* fails and the call ends with CommandInfoError naming the signature.
C11_BindingRule ==
  (bpc = "bound") =>
    IF Unbindable = {}
    THEN /\ bresult.kind = "Resolved"
         /\ bresult.command = bsig.handler
         /\ DOMAIN bresult.kwargs =
              {"self", "ctx"} \cup { bsig.params[j].name : j \in 1..Len(bsig.params) }
         /\ \A j \in 1..Len(bsig.params) :
              bresult.kwargs[bsig.params[j].name] =
                IF j <= Len(bargs) THEN bargs[j]
                ELSE IF bsig.params[j].optional THEN NoneVal
                ELSE [t |-> "default", s |-> bsig.params[j].name, l |-> <<>>]
    ELSE /\ bresult.kind = "CommandInfoError"
         /\ bresult.command = bsig.handler

\* the values ran out before a parameter that is optional and has a default,
\* after one that took a value, and the parameter was bound to null
C11_Witness ==
  /\ bpc = "bound"
  /\ bresult.kind = "Resolved"
  /\ Len(bargs) >= 1
  /\ \E j \in (Len(bargs) + 1)..Len(bsig.params) :
       /\ bsig.params[j].optional
       /\ bsig.params[j].hasDefault
       /\ bresult.kwargs[bsig.params[j].name] = NoneVal

(* ---------------- C12 ---------------- *)
\* C12: no collected value is dropped. For every call that returns a
\* resolved operation, the values collected for the winner are bound, in
\* collection order, each to one declared parameter of its own, and none is
\* left in args when the binder ends.
C12_NoValueDropped ==
  (Done /\ result.kind = "Resolved") =>
    LET vals == collected[result.command]
        ps   == Objects[result.command].params
    IN /\ unbound = <<>>
       /\ Len(vals) <= Len(ps)
       /\ \A j, k \in 1..Len(ps) : ps[j].name = ps[k].name => j = k
       /\ \A j \in 1..Len(vals) : result.kwargs[ps[j].name] = vals[j]

\* a call resolved with two different values collected for the winner
C12_Witness ==
  /\ Done
  /\ result.kind = "Resolved"
  /\ Len(collected[result.command]) >= 2
  /\ collected[result.command][1] # collected[result.command][2]
  /\ unbound = <<>>

(* ---------------- C13 ---------------- *)
\* a is b with some of its elements removed (b holds no element twice)
Thinned(a, b) == a = SelectSeq(b, LAMBDA x : x \in Elements(a))

\* C13: resolution is side-effect free. A step of cmd_cconf from the arrival
\* of the arguments to the end of get_command leaves Handler.handlers (same
\* signatures, same order) and the entity configuration as they were,
\* whatever the outcome; what the call eliminates is missing only from its
\* own candidate lists.
C13_ResolutionFrame ==
  [][ (pc = "called") =>
        /\ registry' = registry
        /\ config' = config
        /\ (pc' = "done") =>
             /\ Thinned(loopLive', registry')
             /\ Thinned(handlers', loopLive') ]_vars

\* a call ended with candidates eliminated from a registry that had grown
C13_Witness ==
  /\ Done
  /\ Len(registry) > Len(Registered)
  /\ result.kind = "Resolved"
  /\ Len(handlers) < Len(loopLive)
  /\ Len(loopLive) < Len(registry)

(* ---------------- C14 ---------------- *)
\* what get_command hands back for the tokens of p when it runs alone
Alone(p) == OutOf(get_command(ConcRegistry, config, calls[p].tokens))

\* C14: concurrent resolutions are independent. Two get_command calls on
\* different token sequences, interleaved statement by statement in any
\* order over the same registry and configuration, each end with the result,
\* the candidates and the collected and bound values of the call run alone.
C14_InterleavingIndependent ==
  \A p \in DOMAIN calls :
    calls[p].phase = "end" => calls[p].out = Alone(p)

\* both calls are inside the token loop past the first token, each with
\* candidates already eliminated
C14_Witness ==
  /\ DOMAIN calls = Callers
  /\ \A p \in Callers :
       /\ calls[p].phase = "loop"
       /\ calls[p].idx >= 2
       /\ calls[p].at >= 1
       /\ Len(calls[p].st.handlers) < Len(registry)
  /\ \E p \in Callers : \E c \in Elements(calls[p].st.handlers) :
       Len(calls[p].st.args[c]) >= 1

(* ---------------- C15 ---------------- *)
\* the lower-case spelling of a token
Canon(t) == IF t \in DOMAIN LowerTable THEN LowerTable[t] ELSE t

\* candidate c, fitting the tokens before position i, takes token i as it
\* is spelled: as a string value or into its list value
Reads(c, i) ==
  LET n == Len(Pattern(c)) IN
  IF i <= n
  THEN Pattern(c)[i].k \in {"str", "list"} /\ FitsThrough(c, i - 1)
  ELSE n >= 1 /\ Pattern(c)[n].k = "list" /\ FitsThrough(c, n - 1)

\* position i is matched by literals and entity parsers only
CaseFree(i) == \A c \in Elements(registry) : ~Reads(c, i)

\* the tokens with every such position spelled in lower case
Respelled ==
  [i \in 1..Len(arguments) |->
     IF CaseFree(i) THEN Canon(arguments[i]) ELSE arguments[i]]

ParserNames ==
  {"CommandEntryArgument", "HandlerArgument", "GroupArgument", "CategoryArgument"}

\* C15: case-insensitivity. A token sequence and the one that differs from
\* it only by lower-case spelling at positions matched by a literal or handed
\* to an entity parser end in the same outcome kind with the same signature
\* (and the same message and bound values); each entity parser returns for
\* both spellings of a token the same entity, under its lower-case key, or
\* the same failure message.
C15_CaseInsensitive ==
  Done =>
    /\ \/ Respelled = arguments
       \/ \E r \in { get_command(registry, config, Respelled).result } :
            /\ r.kind = result.kind
            /\ r.command = result.command
            /\ r.message = result.message
            /\ r.kwargs = result.kwargs
    /\ \A p \in ParserNames : \A i \in 1..Len(arguments) :
         /\ Parse(p, config, arguments[i]) = Parse(p, config, Canon(arguments[i]))
         /\ Parse(p, config, arguments[i]).ok =>
              Parse(p, config, arguments[i]).val.s = Canon(arguments[i])

\* a call resolved with a literal and an entity name both spelled with
\* upper-case letters
C15_Witness ==
  /\ Done
  /\ result.kind = "Resolved"
  /\ \E i, j \in 1..Len(arguments) :
       /\ i <= Len(Pattern(result.command))
       /\ j <= Len(Pattern(result.command))
       /\ Pattern(result.command)[i].k = "lit"
       /\ Pattern(result.command)[j].k = "parser"
       /\ Respelled[i] # arguments[i]
       /\ Respelled[j] # arguments[j]

(* ---------------- C16 ---------------- *)
Handled == pc = "handled"

\* C16: cmd_cconf branches on the outcome before it calls anything. Nothing
\* is invoked before get_command has returned; after a resolved return
\* exactly the returned callback is invoked, once, with exactly the returned
\* kwargs; after CommandMessageError the message is sent as a warning, after
\* CommandInfoError the usage of the named signature is sent (or
\* CommandUsageError raised when it has no docs), after CommandNotFoundError
\* CommandUsageError is raised, and in these three cases nothing is invoked.
C16_BranchBeforeInvoke ==
  /\ ~Handled => (invoked = << >> /\ sent = << >> /\ ~usage_error)
  /\ Handled =>
       CASE result.kind = "Resolved" ->
              /\ invoked = << [handler |-> Objects[result.command].handler,
                               kwargs  |-> result.kwargs] >>
              /\ sent = << >>
              /\ ~usage_error
         [] result.kind = "CommandMessageError" ->
              /\ invoked = << >>
              /\ sent = << Sent("warn", result.message, 0) >>
              /\ ~usage_error
         [] result.kind = "CommandInfoError" ->
              /\ invoked = << >>
              /\ IF Objects[result.command].docs
                 THEN sent = << Sent("usage", NoMessage, result.command) >> /\ ~usage_error
                 ELSE sent = << >> /\ usage_error
         [] result.kind = "CommandNotFoundError" ->
              /\ invoked = << >>
              /\ sent = << >>
              /\ usage_error
         [] OTHER ->
              /\ invoked = << >>
              /\ AsksHelp(arguments)

\* a resolved callback was invoked with a bound entity
C16_Witness ==
  /\ Handled
  /\ Len(invoked) = 1
  /\ invoked[1].handler = 300
  /\ invoked[1].kwargs["name"].t = "CommandEntry"
  /\ Len(invoked[1].kwargs["alias"].l) >= 1

(* ---------------- C17 ---------------- *)
\* the pattern of c has fewer positions than the input has tokens and does
\* not end in a plain list element
OverLong(c) ==
  /\ Len(arguments) > Len(Pattern(c))
  /\ ~(Len(Pattern(c)) > 0 /\ Pattern(c)[Len(Pattern(c))] = ListStr)

\* C17: over-long input eliminates inside the token loop and is never
\* counted by the arity check. A candidate with fewer positions than the
\* input has tokens, not ending in a plain list element, is gone when the
\* token loop ends and is not in arg_errors; and when the loop removes every
\* candidate the call fails with CommandNotFoundError, arg_errors empty.
C17_OverLongIsNotArity ==
  (Done /\ ~Raised /\ Len(arguments) > 0) =>
    /\ \A c \in Elements(registry) :
         OverLong(c) => (c \notin Elements(loopLive) /\ c \notin Elements(arg_errors))
    /\ Len(loopLive) = 0 =>
         (result.kind = "CommandNotFoundError" /\ arg_errors = << >>)

\* the loop ended with no candidate, the last one removed for one token too
\* many after its whole pattern had matched
C17_Witness ==
  /\ Done
  /\ ~Raised
  /\ Len(loopLive) = 0
  /\ result.kind = "CommandNotFoundError"
  /\ \E c \in Elements(registry) :
       /\ OverLong(c)
       /\ Len(arguments) = Len(Pattern(c)) + 1
       /\ FitsThrough(c, Len(Pattern(c)))

(* ---------------- C18 ---------------- *)
\* C18: a parser runs only for a live candidate. Every typ.parse(arg) of a
\* call was made at a parser position of a registered candidate that had
\* fitted every earlier token; an input whose first token matches no
\* registered leading element ends with CommandNotFoundError and without a
\* single parse, whatever follows.
C18_ParseOnlyForLive ==
  Done =>
    /\ \A k \in 1..Len(parses) :
         /\ parses[k].cmd \in Elements(registry)
         /\ parses[k].idx <= Len(Pattern(parses[k].cmd))
         /\ Pattern(parses[k].cmd)[parses[k].idx].k = "parser"
         /\ Pattern(parses[k].cmd)[parses[k].idx].v = parses[k].parser
         /\ FitsThrough(parses[k].cmd, parses[k].idx - 1)
    /\ (Len(arguments) >= 1 /\ LedBy = {}) =>
         (result.kind = "CommandNotFoundError" /\ parses = << >>)

\* the first token led nothing and the second names no entity of any kind
C18_Witness ==
  /\ Done
  /\ Len(arguments) >= 2
  /\ LedBy = {}
  /\ \A p \in ParserNames : ~Parse(p, config, arguments[2]).ok
  /\ result.kind = "CommandNotFoundError"

(* ---------------- C19 ---------------- *)
\* C19: for the signatures mgrcmd.py registers, binding never fails after a
\* successful match. A registered signature that is first among the
\* candidates left by the arity check is returned with every declared
\* parameter bound; every CommandInfoError naming one of them comes from a
\* single removal by the arity check; and each of them has as many
\* non-literal pattern elements as its callback declares parameters.
C19_RegisteredBindAlways ==
  /\ (pc = "idle") =>
       \A c \in Builtin : Len(ValuePositions(c)) = Len(Objects[c].params)
  /\ (Done /\ ~Raised) =>
       /\ (Len(handlers) > 0 /\ handlers[1] \in Builtin) =>
            /\ Resolved(handlers[1])
            /\ \A j \in 1..Len(Objects[handlers[1]].params) :
                 Objects[handlers[1]].params[j].name \in DOMAIN result.kwargs
       /\ (result.kind = "CommandInfoError" /\ result.command \in Builtin) =>
            /\ Len(handlers) = 0
            /\ arg_errors = << result.command >>

\* createGroup won with its name alone and the binder gave the list
\* parameter null
C19_Witness ==
  /\ Done
  /\ result.kind = "Resolved"
  /\ Objects[result.command].handler = 488
  /\ Len(collected[result.command]) = 1
  /\ result.kwargs["allowed_commands"] = NoneVal

====
